---- MODULE Spec2Model ----
(***************************************************************************)
(* Model of the helper functions and the cell sequences of the Roman       *)
(* tutorial notebooks:                                                     *)
(*   content/notebooks/pandeia/pandeia.ipynb                               *)
(*       compute_mag, _mag2sn_, _nexp2sn_, compute_nexp                    *)
(*   content/notebooks/romanisim_romancal/romanisim_romancal.ipynb         *)
(*       make_catalog_synthetic, make_catalog_gaia, the simulation,        *)
(*       calibration and exploration cells                                 *)
(*   content/notebooks/aperture_photometry/aperture_photometry.ipynb       *)
(*       sersic_mod, as curve_fit evaluates it                             *)
(*                                                                         *)
(* Real numbers (S/N values, magnitudes, exposure counts handed to the     *)
(* minimizer) are drawn from integer grids; an interpolated value is kept  *)
(* as an exact fraction <<numerator, denominator>>.                        *)
(***************************************************************************)
EXTENDS Integers, Sequences, FiniteSets, TLC

VARIABLES
    pc,             \* position of the running cell / function
    arg,            \* arguments of the function being run
    snr,            \* the Pandeia engine: S/N for each <<norm_flux, nexp>>
    calc,           \* the Pandeia calculation dictionary (fields the code sets)
    report,         \* last result of perform_calculation
    mag_range,      \* compute_mag: np.arange of magnitudes
    computed_snrs,  \* compute_mag: list of computed S/N
    nexp,           \* compute_nexp: local nexp
    res,            \* compute_nexp: minimize_scalar result (x, on the grid)
    ret,            \* value returned by the function that ran last
    g,              \* romanisim notebook: the kernel's global variables
    files,          \* file system: path -> what the file holds and who wrote it
    dirs,           \* file system: the directories that exist ("" is the working directory)
    cmds,           \* command lines handed to os.system, as the shell splits them
    opened,         \* files the exploration cell opened, in order
    raised,         \* exception that ended the cell or call that ran last
    query,          \* make_catalog_gaia: the ADQL query sent to the archive
    written,        \* paths written by the cell or call that ran last
    ser,            \* sersic_mod: the galsim object bound to the local name ser
    img,            \* sersic_mod: the galsim image bound to the local name img
    evals           \* curve_fit: its evaluations of the model so far, parameters and result

etcVars == <<snr, calc, report, mag_range, computed_snrs, nexp, res>>
nbVars == <<g, files, dirs, cmds, opened, raised, query, written>>
fitVars == <<ser, img, evals>>
vars == <<pc, arg, ret, etcVars, nbVars, fitVars>>

----------------------------------------------------------------------------
(* Bounds of the model *)

MaxSNR == 3          \* S/N values are 0..MaxSNR
MaxNexp == 3         \* upper end of compute_nexp's bracket
Grid == 10           \* minimizer arguments are multiples of 1/Grid
MagLo == 24          \* short brackets of compute_mag lie in MagLo..MagLo+MagSpan
MagSpan == 2
SecondsPerExposure == 2   \* exposure time of one exposure, in model units
MaxSources == 1      \* make_catalog_synthetic: n_ser and n_psf are 0..MaxSources
MaxRowLimit == 2     \* make_catalog_gaia: row_limit is -2..MaxRowLimit
UGrid == 10          \* a uniform draw in [0, 1) is k/UGrid, k in 0..UGrid-1
StreamPeriod == 2    \* a random stream repeats after StreamPeriod draws
MaxEvals == 2        \* curve_fit evaluates the model at most MaxEvals times

(* Program constants *)
DefaultBracketLo == 18
DefaultBracketHi == 30
XTolGrid == 1        \* xtol = 0.1, in units of 1/Grid
DefaultRowLimit == 1000

NoValue == "None"

Filters == {"f129", "f158"}

----------------------------------------------------------------------------
(* Pandeia engine, as the notebook uses it *)

\* the romanisim notebook is not running
NotebookIdle ==
    /\ g = NoValue /\ files = <<>> /\ dirs = {""} /\ cmds = <<>>
    /\ opened = <<>> /\ raised = NoValue /\ query = NoValue /\ written = {}

\* no Sersic fit is running
FitIdle == ser = NoValue /\ img = NoValue /\ evals = <<>>

\* build_default_calc('roman', 'wfi', 'imaging'): one exposure, default source
build_default_calc ==
    [filter |-> "f087", norm_flux |-> NoValue, norm_fluxunit |-> "flam",
     norm_waveunit |-> "microns", nexp |-> 1]

\* perform_calculation(calc): the report keeps the input configuration
perform_calculation(c) ==
    [nexp |-> c.nexp,
     filter |-> c.filter,
     norm_flux |-> c.norm_flux,
     sn |-> snr[<<c.norm_flux, c.nexp>>],
     total_exposure_time |-> c.nexp * SecondsPerExposure]

\* S/N tables of the engine: non-increasing in magnitude, non-decreasing in
\* the number of exposures; cuts[k] is where the S/N passes k.
Cuts(S) == {c \in [1..MaxSNR -> S] : \A k \in 1..(MaxSNR - 1) : c[k] <= c[k + 1]}

SnrByMag(mags, n, c) ==
    [p \in mags \X {n} |-> Cardinality({k \in 1..MaxSNR : p[1] < c[k]})]

SnrByNexp(m, ns, c) ==
    [p \in {m} \X ns |-> Cardinality({k \in 1..MaxSNR : p[2] >= c[k]})]

----------------------------------------------------------------------------
(* pandeia.ipynb: compute_mag *)

\* np.arange(start, stop, 1) for integers
Arange(start, stop) ==
    [i \in 1..(IF stop > start THEN stop - start ELSE 0) |-> start + i - 1]

\* a plausible slip: np.arange(bracket[0], bracket[1], 1) drops the faint end
MagRangeExclusive(bracket) == Arange(bracket[1], bracket[2])

\* line 270: the magnitudes compute_mag tests, both ends of the bracket included
MagRangeOf(bracket) == Arange(bracket[1], bracket[2] + 1)

\* lines 259-272: default calculation, units, nexp, filter, magnitude array
ComputeMagSetup ==
    /\ pc = "compute_mag"
    /\ calc' = [build_default_calc EXCEPT !.norm_fluxunit = "abmag",
                                          !.norm_waveunit = "um",
                                          !.nexp = arg.nexp,
                                          !.filter = arg.filt]
    /\ mag_range' = MagRangeOf(arg.bracket)
    /\ computed_snrs' = <<>>
    /\ pc' = "mag_loop"
    /\ UNCHANGED <<arg, ret, snr, report, nexp, res, nbVars, fitVars>>

\* lines 274-278: one pass of the loop over the magnitudes
ComputeMagIter ==
    /\ pc = "mag_loop"
    /\ Len(computed_snrs) < Len(mag_range)
    /\ LET m == Len(computed_snrs) + 1
           c == [calc EXCEPT !.norm_flux = mag_range[m]]
           r == perform_calculation(c)
       IN /\ calc' = c
          /\ report' = r
          /\ computed_snrs' = Append(computed_snrs, r.sn)
    /\ UNCHANGED <<pc, arg, ret, snr, mag_range, nexp, res, nbVars, fitVars>>

\* line 280: return mag_range, computed_snrs
ComputeMagReturn ==
    /\ pc = "mag_loop"
    /\ Len(computed_snrs) = Len(mag_range)
    /\ ret' = [mag_range |-> mag_range, computed_snrs |-> computed_snrs]
    /\ pc' = "mag_done"
    /\ UNCHANGED <<arg, etcVars, nbVars, fitVars>>

----------------------------------------------------------------------------
(* pandeia.ipynb: _mag2sn_, scipy.interpolate.interp1d(x, y) with its        *)
(* defaults: kind='linear', assume_sorted=False, bounds_error=True          *)

\* a plausible slip: the table is taken as already sorted
ArgsortIdentity(x) == [r \in 1..Len(x) |-> r]

\* np.argsort(x, kind='mergesort'): stable, ascending
Argsort(x) ==
    LET rank(i) == 1 + Cardinality({k \in 1..Len(x) :
                        x[k] < x[i] \/ (x[k] = x[i] /\ k < i)})
    IN [r \in 1..Len(x) |-> CHOOSE i \in 1..Len(x) : rank(i) = r]

\* np.interp(t, xs, ys) for xs ascending and xs[1] <= t <= xs[Len(xs)]:
\* j is the last entry with xs[j] <= t; the value is exact at an entry
NpInterp(t, xs, ys) ==
    LET n == Len(xs)
        j == CHOOSE k \in 1..n :
                 /\ xs[k] <= t
                 /\ \A l \in (k + 1)..n : xs[l] > t
    IN IF j = n \/ xs[j] = t
          THEN <<ys[j], 1>>
          ELSE <<ys[j] * (xs[j + 1] - xs[j]) + (ys[j + 1] - ys[j]) * (t - xs[j]),
                 xs[j + 1] - xs[j]>>

SeqMin(x) == CHOOSE v \in {x[i] : i \in 1..Len(x)} : \A i \in 1..Len(x) : v <= x[i]
SeqMax(x) == CHOOSE v \in {x[i] : i \in 1..Len(x)} : \A i \in 1..Len(x) : v >= x[i]

\* interp1d(x, y)(t): sort by x, refuse a t outside the table, interpolate
Interp1d(x, y, t) ==
    LET ind == Argsort(x)
        xs == [r \in 1..Len(x) |-> x[ind[r]]]
        ys == [r \in 1..Len(x) |-> y[ind[r]]]
    IN IF t < SeqMin(x) \/ t > SeqMax(x)
          THEN "ValueError"
          ELSE NpInterp(t, xs, ys)

\* lines 296-299
mag2sn(mags, snrs, sntarget) == Interp1d(snrs, mags, sntarget)

\* line 325 of the example cell: mag = _mag2sn_(mag_range, computed_snrs, sn)
Mag2sn ==
    /\ pc = "mag_done"
    /\ \E sntarget \in 0..(MaxSNR + 1) :
         ret' = [mag_range |-> ret.mag_range, computed_snrs |-> ret.computed_snrs,
                 sntarget |-> sntarget,
                 mag |-> mag2sn(ret.mag_range, ret.computed_snrs, sntarget)]
    /\ pc' = "mag2sn_done"
    /\ UNCHANGED <<arg, etcVars, nbVars, fitVars>>

\* compute_mag is called with a bracket b0 <= b1: the default one or a short one
Brackets ==
    {<<DefaultBracketLo, DefaultBracketHi>>}
    \cup {b \in (MagLo..(MagLo + MagSpan)) \X (MagLo..(MagLo + MagSpan)) : b[1] <= b[2]}

InitMag ==
    /\ pc = "compute_mag"
    /\ \E filt \in Filters, n \in 1..2, bracket \in Brackets :
         /\ arg = [filt |-> filt, nexp |-> n, bracket |-> bracket]
         /\ \E c \in Cuts(bracket[1]..(bracket[2] + 1)) :
              snr = SnrByMag(bracket[1]..bracket[2], n, c)
    /\ calc = NoValue /\ report = NoValue
    /\ mag_range = <<>> /\ computed_snrs = <<>>
    /\ nexp = NoValue /\ res = NoValue /\ ret = NoValue
    /\ NotebookIdle
    /\ FitIdle

NextMag == ComputeMagSetup \/ ComputeMagIter \/ ComputeMagReturn \/ Mag2sn

SpecMag == InitMag /\ [][NextMag]_vars

----------------------------------------------------------------------------
(* pandeia.ipynb: _nexp2sn_ and compute_nexp *)

\* int(x) for a positive x given in units of 1/Grid
IntOf(x) == x \div Grid

\* lines 362-365: the objective handed to the minimizer; it truncates the
\* trial number of exposures before the calculation
nexp2sn(x, c, sntarget) ==
    LET etc == perform_calculation([c EXCEPT !.nexp = IntOf(x)])
    IN (sntarget - etc.sn) * (sntarget - etc.sn)

\* lines 414-416: minimize_scalar(_nexp2sn_, bounds=bracket, method='bounded',
\* options={'xatol': xtol}), a local minimizer (Brent) on lo < x < hi: the
\* result lies within xatol of a point that no point within xatol of it beats
MinimizeScalarBounded(c, sntarget, bracket) ==
    LET pts == (bracket[1] * Grid)..(bracket[2] * Grid)
        near(x, y) == x - y <= XTolGrid /\ y - x <= XTolGrid
        f(x) == nexp2sn(x, c, sntarget)
        localMin == {m \in pts : \A y \in pts : near(m, y) => f(m) <= f(y)}
    IN {x \in pts : /\ bracket[1] * Grid < x
                    /\ x < bracket[2] * Grid
                    /\ \E m \in localMin : near(x, m)}

\* lines 396-409: default calculation with the source, the filter and one exposure
ComputeNexpFirst ==
    /\ pc = "compute_nexp"
    /\ LET c == [build_default_calc EXCEPT !.norm_flux = arg.mag,
                                           !.norm_fluxunit = "abmag",
                                           !.norm_waveunit = "um",
                                           !.filter = arg.filt,
                                           !.nexp = 1]
       IN /\ calc' = c
          /\ report' = perform_calculation(c)
    /\ pc' = "nexp_test"
    /\ UNCHANGED <<arg, ret, snr, mag_range, computed_snrs, nexp, res, nbVars, fitVars>>

\* lines 411-412: one exposure already exceeds the required S/N
ComputeNexpOne ==
    /\ pc = "nexp_test"
    /\ report.sn > arg.sn
    /\ nexp' = 1
    /\ pc' = "nexp_return"
    /\ UNCHANGED <<arg, ret, snr, calc, report, mag_range, computed_snrs, res, nbVars, fitVars>>

\* lines 413-423: minimize, truncate the result, redo the calculation with it
ComputeNexpMinimize ==
    /\ pc = "nexp_test"
    /\ ~(report.sn > arg.sn)
    /\ \E x \in MinimizeScalarBounded(calc, arg.sn, arg.bracket) :
         LET c == [calc EXCEPT !.nexp = IntOf(x)]
         IN /\ res' = [x |-> x]
            /\ nexp' = IntOf(x)
            /\ calc' = c
            /\ report' = perform_calculation(c)
    /\ pc' = "nexp_ensure"
    /\ UNCHANGED <<arg, ret, snr, mag_range, computed_snrs, nbVars, fitVars>>

\* lines 429-430: if report['scalar']['sn'] < sn: nexp += 1 (the report stays)
Ensure(c, r, n, sn) ==
    IF r.sn < sn
       THEN [nexp |-> n + 1, report |-> r]
       ELSE [nexp |-> n, report |-> r]

ComputeNexpEnsure ==
    /\ pc = "nexp_ensure"
    /\ LET e == Ensure(calc, report, nexp, arg.sn)
       IN /\ nexp' = e.nexp
          /\ report' = e.report
    /\ pc' = "nexp_return"
    /\ UNCHANGED <<arg, ret, snr, calc, mag_range, computed_snrs, res, nbVars, fitVars>>

\* lines 432-434: exptime from the report at hand; return nexp, report, exptime
ComputeNexpReturn ==
    /\ pc = "nexp_return"
    /\ ret' = [nexp |-> nexp, report |-> report,
               exptime |-> report.total_exposure_time]
    /\ pc' = "nexp_done"
    /\ UNCHANGED <<arg, etcVars, nbVars, fitVars>>

\* compute_nexp(filt, sn, mag) with the bracket (1, MaxNexp)
InitNexp ==
    /\ pc = "compute_nexp"
    /\ \E filt \in Filters, sn \in 1..MaxSNR, m \in {26} :
         /\ arg = [filt |-> filt, sn |-> sn, mag |-> m, bracket |-> <<1, MaxNexp>>]
         /\ \E c \in Cuts(1..(MaxNexp + 2)) :
              snr = SnrByNexp(m, 1..(MaxNexp + 1), c)
    /\ calc = NoValue /\ report = NoValue
    /\ mag_range = <<>> /\ computed_snrs = <<>>
    /\ nexp = NoValue /\ res = NoValue /\ ret = NoValue
    /\ NotebookIdle
    /\ FitIdle

NextNexp ==
    \/ ComputeNexpFirst
    \/ ComputeNexpOne
    \/ ComputeNexpMinimize
    \/ ComputeNexpEnsure
    \/ ComputeNexpReturn

SpecNexp == InitNexp /\ [][NextNexp]_vars

----------------------------------------------------------------------------
(* romanisim_romancal.ipynb: strings, paths and the file system *)

\* s.endswith(suffix)
EndsWith(s, suffix) ==
    /\ Len(s) >= Len(suffix)
    /\ SubSeq(s, Len(s) - Len(suffix) + 1, Len(s)) = suffix

\* sub in s
Contains(s, sub) ==
    \E i \in 1..(Len(s) - Len(sub) + 1) : SubSeq(s, i, i + Len(sub) - 1) = sub

\* str() of a non-negative float held in tenths: 0 is '0.0', 15 is '1.5'
FloatStr(x) == ToString(x \div 10) \o "." \o ToString(x % 10)

\* the directory part of a path, with its trailing slash ("" for none)
DirOf(path) ==
    LET slashes == {i \in 1..Len(path) : SubSeq(path, i, i) = "/"}
    IN IF slashes = {} THEN ""
       ELSE SubSeq(path, 1, CHOOSE i \in slashes : \A k \in slashes : k <= i)

BaseOf(path) == SubSeq(path, Len(DirOf(path)) + 1, Len(path))

NoFiles == [p \in {} |-> NoValue]

\* a file can be created or replaced where its directory exists
CanWrite(path) == DirOf(path) \in dirs

WriteFile(fs, path, content) ==
    [p \in DOMAIN fs \cup {path} |-> IF p = path THEN content ELSE fs[p]]

RemoveFile(fs, path) == [p \in DOMAIN fs \ {path} |-> fs[p]]

\* os.path.isfile(path)
IsFile(path) == path \in DOMAIN files

----------------------------------------------------------------------------
(* romanisim_romancal.ipynb: make_catalog_synthetic *)

\* line 172: the flux column is stored under this key
FluxColumn(bandpass) == "F158"

\* lines 151-175: the table handed to astropy.io.ascii.write
SyntheticCatalog(ra, dec, bandpass, n_ser, n_psf) ==
    [by |-> "make_catalog_synthetic",
     names |-> <<"ra", "dec", "type", "n", "half_light_radius", "pa", "ba",
                 FluxColumn(bandpass)>>,
     n_psf |-> n_psf,
     n_ser |-> n_ser,
     n_sources |-> n_psf + n_ser]

\* the effect of make_catalog_synthetic(outfile_name, ra, dec, bandpass, ...):
\* the table is written over any existing file, or the write fails
MakeCatalogSynthetic(outfile_name, ra, dec, bandpass, n_ser, n_psf) ==
    IF CanWrite(outfile_name)
       THEN /\ files' = WriteFile(files, outfile_name,
                                  SyntheticCatalog(ra, dec, bandpass, n_ser, n_psf))
            /\ written' = {outfile_name}
            /\ raised' = NoValue
       ELSE /\ files' = files
            /\ written' = {}
            /\ raised' = "FileNotFoundError"

----------------------------------------------------------------------------
(* romanisim_romancal.ipynb: make_catalog_synthetic, the columns of the     *)
(* table.  A uniform draw u in [0, 1) is held as the integer u*UGrid.  The  *)
(* positions are held in units of scale/(2*UGrid), for a field centred on   *)
(* the equator (cos(dec) = 1); half_light_radius and pa in units of         *)
(* 1/UGrid, ba in units of 1/(10*UGrid); a flux f is held as its decimal    *)
(* logarithm, log10(f)*UGrid.                                               *)

\* line 151, np.random.seed(seed): the stream of uniform draws the generator
\* gives from then on, a function of the seed alone.  The digits of the seed
\* in base UGrid stand for the draws, so that the seeds 0..UGrid^StreamPeriod-1
\* give every stream of that period.
Stream(seed) == [j \in 1..StreamPeriod |-> (seed \div (UGrid ^ (j - 1))) % UGrid]

\* np.random.uniform(size=size) of a generator that has made pos draws
Uniform(u, pos, size) ==
    [i \in 1..size |-> u[((pos + i - 1) % StreamPeriod) + 1]]

\* a plausible slip: the types in the order of the keyword arguments
TypeColumnSerFirst(n_psf, n_ser) ==
    [i \in 1..(n_psf + n_ser) |-> IF i <= n_ser THEN "SER" ELSE "PSF"]

\* line 160: np.array(['PSF']*n_psf+['SER']*n_ser)
TypeColumn(n_psf, n_ser) ==
    [i \in 1..(n_psf + n_ser) |-> IF i <= n_psf THEN "PSF" ELSE "SER"]

\* lines 170-171: np.power(10.0, uniform)*10^exponent, as a decimal logarithm
PowerOfTen(draws, exponent) ==
    [i \in 1..Len(draws) |-> draws[i] + exponent * UGrid]

\* line 168: 0.3+uniform*0.7, in units of 1/(10*UGrid)
AxisRatio(draws) == [i \in 1..Len(draws) |-> 3 * UGrid + draws[i] * 7]

\* line 172: np.concatenate([a, b])
Concatenate(a, b) == a \o b

\* lines 151-172: the dictionary d, one array for each column
SyntheticColumns(ra, dec, n_ser, n_psf, seed) ==
    LET u == Stream(seed)
        n_sources == n_psf + n_ser
        rows == 1..n_sources
        u_ra == Uniform(u, 0, n_sources)
        u_dec == Uniform(u, n_sources, n_sources)
        u_n == Uniform(u, 2 * n_sources, n_sources)
        u_hlr == Uniform(u, 3 * n_sources, n_sources)
        u_pa == Uniform(u, 4 * n_sources, n_sources)
        u_ba == Uniform(u, 5 * n_sources, n_sources)
        temp1 == PowerOfTen(Uniform(u, 6 * n_sources, n_psf), -8)
        temp2 == PowerOfTen(Uniform(u, 6 * n_sources + n_psf, n_ser), -7)
    IN [ra |-> [i \in rows |-> ra * 2 * UGrid + (2 * u_ra[i] - UGrid) * 6],
        dec |-> [i \in rows |-> dec * 2 * UGrid + (2 * u_dec[i] - UGrid) * 3],
        type |-> TypeColumn(n_psf, n_ser),
        n |-> [i \in rows |-> 2 + ((u_n[i] * 2) \div UGrid)],
        half_light_radius |-> [i \in rows |-> 3 * UGrid + u_hlr[i] * 5],
        pa |-> [i \in rows |-> u_pa[i] * 90],
        ba |-> AxisRatio(u_ba),
        F158 |-> Concatenate(temp1, temp2)]

\* lines 151-175 with the table itself: what astropy.io.ascii.write is given
SyntheticTable(ra, dec, bandpass, n_ser, n_psf, seed) ==
    [by |-> "make_catalog_synthetic",
     names |-> SyntheticCatalog(ra, dec, bandpass, n_ser, n_psf).names,
     seed |-> seed,
     d |-> SyntheticColumns(ra, dec, n_ser, n_psf, seed)]

\* the effect of make_catalog_synthetic(..., seed=seed), the table included
MakeCatalogSyntheticTable(outfile_name, ra, dec, bandpass, n_ser, n_psf, seed) ==
    IF CanWrite(outfile_name)
       THEN /\ files' = WriteFile(files, outfile_name,
                                  SyntheticTable(ra, dec, bandpass, n_ser, n_psf, seed))
            /\ written' = {outfile_name}
            /\ raised' = NoValue
       ELSE /\ files' = files
            /\ written' = {}
            /\ raised' = "FileNotFoundError"

----------------------------------------------------------------------------
(* romanisim_romancal.ipynb: make_catalog_gaia *)

\* a plausible slip: row_limit > 0 decides about the TOP clause
TopClauseFromOne(row_limit) ==
    IF row_limit > 0 THEN "TOP " \o ToString(row_limit) ELSE ""

\* line 209: row_limit = f'TOP {row_limit}' if row_limit > -1 else ''
TopClause(row_limit) ==
    IF row_limit > -1 THEN "TOP " \o ToString(row_limit) ELSE ""

\* line 210: the ADQL query
GaiaQuery(row_limit, ra, dec, radius) ==
    "select " \o TopClause(row_limit) \o " * from gaiadr3.gaia_source where distance("
        \o FloatStr(ra) \o ", " \o FloatStr(dec) \o ", ra, dec) < " \o FloatStr(radius)

\* a plausible slip: the dot of the extension is not asked for
IsEcsvNoDot(outfile_name) == EndsWith(outfile_name, "ecsv")

\* line 218: outfile_name.endswith('.ecsv')
IsEcsv(outfile_name) == EndsWith(outfile_name, ".ecsv")

\* lines 214-220: the query result, 5 magnitudes fainter, converted for romanisim
GaiaCatalog(q, date, bandpasses) ==
    [by |-> "make_catalog_gaia", query |-> q, date |-> date,
     fluxfields |-> bandpasses, mag_offset |-> 5]

\* bandpasses=None, among values that are sets of names
NoBandpasses == {NoValue}

\* romanisim.bandpass.galsim2roman_bandpass.values()
RomanBandpasses == {"F062", "F087", "F106", "F129", "F146", "F158", "F184", "F213"}

\* the effect of make_catalog_gaia(outfile_name, ra, dec, date, bandpasses,
\* radius, row_limit), lines 209-222; the archive answers the query
MakeCatalogGaia(outfile_name, ra, dec, date, bandpasses, radius, row_limit) ==
    LET q == GaiaQuery(row_limit, ra, dec, radius)
        bands == IF bandpasses = NoBandpasses THEN RomanBandpasses ELSE bandpasses
    IN /\ query' = q
       /\ IF IsEcsv(outfile_name)
             THEN IF CanWrite(outfile_name)
                     THEN /\ files' = WriteFile(files, outfile_name,
                                                GaiaCatalog(q, date, bands))
                          /\ written' = {outfile_name}
                          /\ raised' = NoValue
                     ELSE /\ files' = files
                          /\ written' = {}
                          /\ raised' = "FileNotFoundError"
             ELSE /\ files' = files
                  /\ written' = {}
                  /\ raised' = "RuntimeError: output file name should end with .ecsv"

----------------------------------------------------------------------------
(* The two catalog functions called with arguments of the caller's choice *)

OutfileNames ==
    {"catalog_gaia.ecsv", "catalog_mixed.csv", "catalog.ecsv.csv", "catalogecsv",
     ".ecsv", "ecsv"}

\* a caller makes a first call, then a second one; ret tells whether the
\* output file was there before the call
CanCall == pc \in {"call", "call_again"}
AfterCall == IF pc = "call" THEN "call_again" ELSE "end"

CallMakeCatalogSynthetic ==
    /\ CanCall
    /\ pc' = AfterCall
    /\ \E outfile_name \in OutfileNames, bandpass \in {"F158", "F129", "F184"},
          n_ser \in 0..MaxSources, n_psf \in 0..MaxSources :
         /\ arg' = [fn |-> "make_catalog_synthetic", outfile_name |-> outfile_name,
                    ra |-> 0, dec |-> 0, bandpass |-> bandpass,
                    n_ser |-> n_ser, n_psf |-> n_psf]
         /\ ret' = [existed |-> IsFile(outfile_name)]
         /\ MakeCatalogSynthetic(outfile_name, 0, 0, bandpass, n_ser, n_psf)
    /\ UNCHANGED <<etcVars, g, dirs, cmds, opened, query, fitVars>>

CallMakeCatalogGaia ==
    /\ CanCall
    /\ pc' = AfterCall
    /\ \E outfile_name \in OutfileNames, row_limit \in ((-2)..MaxRowLimit) \cup {DefaultRowLimit},
          ra \in {0, 105}, bandpasses \in {NoBandpasses, {"F158"}} :
         /\ arg' = [fn |-> "make_catalog_gaia", outfile_name |-> outfile_name,
                    ra |-> ra, dec |-> 0, date |-> "2026-01-01",
                    bandpasses |-> bandpasses, radius |-> 10, row_limit |-> row_limit]
         /\ ret' = [existed |-> IsFile(outfile_name)]
         /\ MakeCatalogGaia(outfile_name, ra, 0, "2026-01-01", bandpasses, 10, row_limit)
    /\ UNCHANGED <<etcVars, g, dirs, cmds, opened, fitVars>>

InitCatalog ==
    /\ pc = "call"
    /\ arg = NoValue /\ ret = NoValue
    /\ snr = NoValue /\ calc = NoValue /\ report = NoValue
    /\ mag_range = <<>> /\ computed_snrs = <<>> /\ nexp = NoValue /\ res = NoValue
    /\ g = NoValue /\ files = NoFiles /\ dirs = {""} /\ cmds = <<>>
    /\ opened = <<>> /\ raised = NoValue /\ query = NoValue /\ written = {}
    /\ FitIdle

NextCatalog == CallMakeCatalogSynthetic \/ CallMakeCatalogGaia

SpecCatalog == InitCatalog /\ [][NextCatalog]_vars

----------------------------------------------------------------------------
(* make_catalog_synthetic called once, for every seed, and its table looked *)
(* at row by row                                                            *)

Seeds == 0..(UGrid ^ StreamPeriod - 1)

CallMakeCatalogSyntheticTable ==
    /\ pc = "synthetic"
    /\ pc' = "end"
    /\ \E outfile_name \in {"catalog_mixed.csv", "test_data/catalog_mixed.csv"},
          n_ser \in 0..MaxSources, n_psf \in 0..MaxSources, seed \in Seeds :
         /\ arg' = [fn |-> "make_catalog_synthetic", outfile_name |-> outfile_name,
                    ra |-> 0, dec |-> 0, bandpass |-> "F158",
                    n_ser |-> n_ser, n_psf |-> n_psf, seed |-> seed]
         /\ ret' = [existed |-> IsFile(outfile_name)]
         /\ MakeCatalogSyntheticTable(outfile_name, 0, 0, "F158", n_ser, n_psf, seed)
    /\ UNCHANGED <<etcVars, g, dirs, cmds, opened, query, fitVars>>

InitSynthetic ==
    /\ pc = "synthetic"
    /\ arg = NoValue /\ ret = NoValue
    /\ snr = NoValue /\ calc = NoValue /\ report = NoValue
    /\ mag_range = <<>> /\ computed_snrs = <<>> /\ nexp = NoValue /\ res = NoValue
    /\ g = NoValue /\ files = NoFiles /\ dirs = {""} /\ cmds = <<>>
    /\ opened = <<>> /\ raised = NoValue /\ query = NoValue /\ written = {}
    /\ FitIdle

NextSynthetic == CallMakeCatalogSyntheticTable

SpecSynthetic == InitSynthetic /\ [][NextSynthetic]_vars

----------------------------------------------------------------------------
(* romanisim_romancal.ipynb: the cells, run from top to bottom.  A cell     *)
(* that raises stops there; the cells after it are run all the same.        *)

NoGlobals ==
    [dirname |-> NoValue, ra_cen |-> NoValue, dec_cen |-> NoValue, sca |-> NoValue,
     exposure_no |-> NoValue, date |-> NoValue, l1_fname |-> NoValue,
     catalog_filename |-> NoValue, level |-> NoValue, filename |-> NoValue,
     cmd |-> NoValue]

\* lines 181-184: dirname = '', the field centre, the synthetic catalog
CellCatalog ==
    /\ pc = "cell_catalog"
    /\ LET g1 == [g EXCEPT !.dirname = "", !.ra_cen = 0, !.dec_cen = 0]
       IN /\ g' = g1
          /\ MakeCatalogSynthetic(g1.dirname \o "catalog_mixed.csv",
                                  g1.ra_cen, g1.dec_cen, "F158", 900, 360)
    /\ pc' = "cell_gaia"
    /\ UNCHANGED <<arg, ret, etcVars, dirs, cmds, opened, query, fitVars>>

\* line 226: make_catalog_gaia(f"{dirname}catalog_gaia.ecsv", ra_cen, dec_cen)
CellGaia ==
    /\ pc = "cell_gaia"
    /\ MakeCatalogGaia(g.dirname \o "catalog_gaia.ecsv", g.ra_cen, g.dec_cen,
                       "2026-01-01", {"F158"}, 10, DefaultRowLimit)
    /\ pc' = "cell_sim"
    /\ UNCHANGED <<arg, ret, etcVars, g, dirs, cmds, opened, fitVars>>

\* the value that follows option opt on a command line
ArgValue(cmd, opt) ==
    cmd[(CHOOSE i \in 1..(Len(cmd) - 1) : cmd[i] = opt) + 1]

\* romanisim-make-image run by os.system: it reads the catalog and writes the
\* image; it fails, without raising in the notebook, when the catalog or the
\* directory of the output is missing
RomanisimMakeImage(cmd, fs) ==
    LET cat == ArgValue(cmd, "--catalog")
        out == cmd[Len(cmd)]
    IN IF cat \in DOMAIN fs /\ DirOf(out) \in dirs
          THEN WriteFile(fs, out, [by |-> "romanisim-make-image",
                                   level |-> ArgValue(cmd, "--level"),
                                   catalog |-> cat,
                                   rng_seed |-> ArgValue(cmd, "--rng_seed")])
          ELSE fs

\* line 269: the Level 1 command line
MakeImageCmdL1(v) ==
    <<"romanisim-make-image", "--radec", FloatStr(v.ra_cen), FloatStr(v.dec_cen),
      "--catalog", v.catalog_filename, "--usecrds", "--webbpsf",
      "--level", ToString(v.level), "--bandpass", "F158", "--date", v.date,
      "--rng_seed", "11", "--sca", ToString(v.sca), v.filename>>

\* a plausible slip: the second command is given another seed
MakeImageCmdOtherSeed(v) ==
    <<"romanisim-make-image", "--radec", FloatStr(v.ra_cen), FloatStr(v.dec_cen),
      "--catalog", v.catalog_filename, "--usecrds", "--webbpsf",
      "--level", ToString(v.level), "--bandpass", "F158", "--date", v.date,
      "--rng_seed", "12", "--sca", ToString(v.sca), v.filename>>

\* line 275: the Level 2 command line
MakeImageCmdL2(v) ==
    <<"romanisim-make-image", "--radec", FloatStr(v.ra_cen), FloatStr(v.dec_cen),
      "--catalog", v.catalog_filename, "--usecrds", "--webbpsf",
      "--level", ToString(v.level), "--bandpass", "F158", "--date", v.date,
      "--rng_seed", "11", "--sca", ToString(v.sca), v.filename>>

\* lines 260-265
CellSimSetup ==
    /\ pc = "cell_sim"
    /\ g' = [g EXCEPT !.sca = 2,
                      !.exposure_no = 1,
                      !.date = "2026-01-01T01:00:00",
                      !.dirname = "test_data/",
                      !.l1_fname = "romanisim_mixed_sca" \o ToString(2),
                      !.catalog_filename = "test_data/" \o "catalog_mixed.csv"]
    /\ raised' = NoValue
    /\ written' = {}
    /\ pc' = "cell_sim_l1"
    /\ UNCHANGED <<arg, ret, etcVars, files, dirs, cmds, opened, query, fitVars>>

\* lines 267-271
CellSimL1 ==
    /\ pc = "cell_sim_l1"
    /\ LET g1 == [g EXCEPT !.level = 1,
                           !.filename = g.dirname \o g.l1_fname \o "_uncal.asdf"]
           cmd == MakeImageCmdL1(g1)
       IN /\ g' = [g1 EXCEPT !.cmd = cmd]
          /\ cmds' = Append(cmds, cmd)
          /\ files' = RomanisimMakeImage(cmd, files)
          /\ written' = IF files' = files THEN {} ELSE {g1.filename}
    /\ pc' = "cell_sim_l2"
    /\ UNCHANGED <<arg, ret, etcVars, dirs, opened, raised, query, fitVars>>

\* lines 273-277
CellSimL2 ==
    /\ pc = "cell_sim_l2"
    /\ LET g1 == [g EXCEPT !.level = 2,
                           !.filename = g.dirname \o g.l1_fname \o "_l2.asdf"]
           cmd == MakeImageCmdL2(g1)
       IN /\ g' = [g1 EXCEPT !.cmd = cmd]
          /\ cmds' = Append(cmds, cmd)
          /\ files' = RomanisimMakeImage(cmd, files)
          /\ written' = written \cup (IF files' = files THEN {} ELSE {g1.filename})
    /\ pc' = "cell_pipeline"
    /\ UNCHANGED <<arg, ret, etcVars, dirs, opened, raised, query, fitVars>>

\* the name romancal derives from its input: the base name without _uncal.asdf
StemOf(path) ==
    IF EndsWith(BaseOf(path), "_uncal.asdf")
       THEN SubSeq(BaseOf(path), 1, Len(BaseOf(path)) - Len("_uncal.asdf"))
       ELSE BaseOf(path)

\* lines 294-300: ExposurePipeline.call(filename, save_results=True,
\* output_dir=dirname, ...) raises on a missing input; else it writes the
\* calibrated image to output_dir and the source catalog to output_dir or to
\* the working directory
CellPipeline ==
    /\ pc = "cell_pipeline"
    /\ LET g1 == [g EXCEPT !.l1_fname = "romanisim_mixed_sca2",
                           !.filename = g.dirname \o "romanisim_mixed_sca2" \o "_uncal.asdf"]
           cal == g1.dirname \o StemOf(g1.filename) \o "_cal.asdf"
           cat == StemOf(g1.filename) \o "_uncal_tweakreg_catalog.asdf"
       IN /\ g' = g1
          /\ IF IsFile(g1.filename)
                THEN /\ \E catdir \in {"", g1.dirname} :
                          /\ files' = WriteFile(
                                 WriteFile(files, cal,
                                           [by |-> "ExposurePipeline", input |-> g1.filename]),
                                 catdir \o cat,
                                 [by |-> "ExposurePipeline", input |-> g1.filename])
                          /\ written' = {cal, catdir \o cat}
                     /\ raised' = NoValue
                     /\ pc' = "cell_move"
                ELSE /\ files' = files
                     /\ written' = {}
                     /\ raised' = "FileNotFoundError"
                     /\ pc' = "cell_explore"
    /\ UNCHANGED <<arg, ret, etcVars, dirs, cmds, opened, query, fitVars>>

\* lines 303-305: move the catalog to the data directory when it is in the
\* working directory
CellMove ==
    /\ pc = "cell_move"
    /\ LET src == g.l1_fname \o "_uncal_tweakreg_catalog.asdf"
           dst == g.dirname \o g.l1_fname \o "_uncal_tweakreg_catalog.asdf"
       IN IF IsFile(src)
             THEN /\ cmds' = Append(cmds, <<"mv", src, dst>>)
                  /\ files' = WriteFile(RemoveFile(files, src), dst, files[src])
                  /\ written' = written \cup {dst}
             ELSE UNCHANGED <<cmds, files, written>>
    /\ pc' = "cell_explore"
    /\ UNCHANGED <<arg, ret, etcVars, g, dirs, opened, raised, query, fitVars>>

\* rdm.open(path) / asdf.open(path) in the exploration cell: the file is read,
\* or the call raises and the cell ends
OpenForReading(path, next) ==
    IF IsFile(path)
       THEN /\ opened' = Append(opened, path)
            /\ raised' = NoValue
            /\ pc' = next
       ELSE /\ opened' = opened
            /\ raised' = "FileNotFoundError"
            /\ pc' = "nb_end"

\* lines 326-327
CellExploreL1 ==
    /\ pc = "cell_explore"
    /\ g' = [g EXCEPT !.l1_fname = "romanisim_mixed_sca2"]
    /\ OpenForReading(g.dirname \o "romanisim_mixed_sca2" \o "_uncal.asdf", "explore_cal")
    /\ written' = {}
    /\ UNCHANGED <<arg, ret, etcVars, files, dirs, cmds, query, fitVars>>

\* line 330
CellExploreCal ==
    /\ pc = "explore_cal"
    /\ OpenForReading(g.dirname \o g.l1_fname \o "_cal.asdf", "explore_catalog")
    /\ UNCHANGED <<arg, ret, etcVars, g, files, dirs, cmds, query, written, fitVars>>

\* lines 333-339: the catalog is opened; af1 of line 339 is not defined
CellExploreCatalog ==
    /\ pc = "explore_catalog"
    /\ LET path == g.dirname \o g.l1_fname \o "_uncal_tweakreg_catalog.asdf"
       IN IF IsFile(path)
             THEN /\ opened' = Append(opened, path)
                  /\ raised' = "NameError"
             ELSE /\ opened' = opened
                  /\ raised' = "FileNotFoundError"
    /\ pc' = "nb_end"
    /\ UNCHANGED <<arg, ret, etcVars, g, files, dirs, cmds, query, written, fitVars>>

\* files an earlier session may have left behind
LeftOver == {"catalog_mixed.csv", "test_data/catalog_mixed.csv",
             "test_data/romanisim_mixed_sca2_uncal.asdf",
             "test_data/romanisim_mixed_sca2_cal.asdf",
             "test_data/romanisim_mixed_sca2_uncal_tweakreg_catalog.asdf"}

\* a fresh kernel in the notebook's directory: test_data/ may or may not be
\* there, with or without files of an earlier session
InitNotebook ==
    /\ pc = "cell_catalog"
    /\ arg = NoValue /\ ret = NoValue
    /\ snr = NoValue /\ calc = NoValue /\ report = NoValue
    /\ mag_range = <<>> /\ computed_snrs = <<>> /\ nexp = NoValue /\ res = NoValue
    /\ g = NoGlobals
    /\ dirs \in {{""}, {"", "test_data/"}}
    /\ \E old \in SUBSET LeftOver :
         /\ \A p \in old : DirOf(p) \in dirs
         /\ files = [p \in old |-> [by |-> "an earlier session"]]
    /\ cmds = <<>> /\ opened = <<>> /\ raised = NoValue /\ query = NoValue
    /\ written = {}
    /\ FitIdle

NextNotebook ==
    \/ CellCatalog
    \/ CellGaia
    \/ CellSimSetup
    \/ CellSimL1
    \/ CellSimL2
    \/ CellPipeline
    \/ CellMove
    \/ CellExploreL1
    \/ CellExploreCal
    \/ CellExploreCatalog

SpecNotebook == InitNotebook /\ [][NextNotebook]_vars

----------------------------------------------------------------------------
(* aperture_photometry.ipynb: sersic_mod and the fit that evaluates it.     *)
(* galsim profiles are immutable values: every transformation returns a new *)
(* object and leaves the one it is called on as it was.  An image is held   *)
(* by what was drawn on it.  Axis ratios are in tenths, angles in degrees.  *)

\* line 1621: zp = get_abflux(band), photons/s of a source of one maggie
zp == 2

\* line 1528: cutout = galsim.Image(img_arr[ymin:ymax, xmin:xmax], scale=0.11)
cutout == [array |-> [shape |-> <<9, 9>>, data |-> "cutout"], scale |-> 11]

\* line 1510: psf_obj = galsim.InterpolatedImage(psf_img, flux=1)
psf_obj == [kind |-> "InterpolatedImage", image |-> "psf_img", flux |-> 1]

\* galsim.Sersic(n, half_light_radius=hlr, flux=flux): a circular profile
Sersic(n, half_light_radius, flux) ==
    [kind |-> "Sersic", n |-> n, half_light_radius |-> half_light_radius,
     flux |-> flux, q |-> 10, beta |-> 0]

\* GSObject.shear(q=q, beta=beta) of a circular profile: a new object with that
\* axis ratio and position angle (the same profile again when q = 1)
Shear(obj, q, beta) ==
    IF q = 10 THEN obj ELSE [obj EXCEPT !.q = q, !.beta = beta % 180]

\* galsim.convolve.Convolve(a, b)
Convolve(a, b) == [kind |-> "Convolution", obj_list |-> <<a, b>>]

\* galsim.PositionD(x=x, y=y)
PositionD(x, y) == [x |-> x, y |-> y]

\* galsim.ImageD(nx, ny): a blank image
ImageD(nx, ny) == [array |-> [shape |-> <<ny, nx>>, data |-> "zeros"]]

\* obj.drawImage(image=image, offset=offset): image with obj drawn on it
DrawImage(obj, image, offset) ==
    [image EXCEPT !.array.data = [drawn |-> obj, offset |-> offset]]

\* array.flatten()
Flatten(array) == [size |-> array.shape[1] * array.shape[2], data |-> array.data]

\* the parameter vectors (n, hlr, flux, pa, x0, y0, q) curve_fit tries, inside
\* its bounds
FitParams ==
    [n : {1, 4}, hlr : {1, 2}, flux : {1}, pa : {0, 45, 225}, x0 : {0, 1}, y0 : {0},
     q : {5, 10}]

\* lines 1664, 1696-1697: curve_fit (or the cell before it) evaluates
\* sersic_mod(cutout, *p)
CurveFitEval ==
    /\ pc = "fit"
    /\ Len(evals) < MaxEvals
    /\ \E p \in FitParams :
         arg' = [fn |-> "sersic_mod", cutout |-> cutout, n |-> p.n, hlr |-> p.hlr,
                 flux |-> p.flux, pa |-> p.pa, x0 |-> p.x0, y0 |-> p.y0, q |-> p.q]
    /\ ser' = NoValue /\ img' = NoValue
    /\ pc' = "sersic"
    /\ UNCHANGED <<ret, etcVars, nbVars, evals>>

\* lines 1638-1640: the flux in photons/s and the circular Sersic profile
SersicModSersic ==
    /\ pc = "sersic"
    /\ ser' = Sersic(arg.n, arg.hlr, arg.flux * zp)
    /\ pc' = "shear"
    /\ UNCHANGED <<arg, ret, etcVars, nbVars, img, evals>>

\* line 1641: ser.shear(q=q, beta=pa*galsim.degrees) as a statement: the
\* object it returns is bound to no name, ser is what it was
SersicModShear ==
    /\ pc = "shear"
    /\ Shear(ser, arg.q, arg.pa).kind = "Sersic"
    /\ ser' = ser
    /\ pc' = "convolve"
    /\ UNCHANGED <<arg, ret, etcVars, nbVars, img, evals>>

\* lines 1642-1643: ser = galsim.convolve.Convolve(ser, psf_obj)
SersicModConvolve ==
    /\ pc = "convolve"
    /\ ser' = Convolve(ser, psf_obj)
    /\ pc' = "draw"
    /\ UNCHANGED <<arg, ret, etcVars, nbVars, img, evals>>

\* lines 1638, 1642, 1644-1645: the model drawn on a blank image of the
\* cutout's shape, shifted by (x0, y0)
SersicModDraw ==
    /\ pc = "draw"
    /\ LET nx == arg.cutout.array.shape[1]
           ny == arg.cutout.array.shape[2]
       IN img' = DrawImage(ser, ImageD(nx, ny), PositionD(arg.x0, arg.y0))
    /\ pc' = "return"
    /\ UNCHANGED <<arg, ret, etcVars, nbVars, ser, evals>>

\* line 1646: return img.array.flatten(); curve_fit keeps the result
SersicModReturn ==
    /\ pc = "return"
    /\ ret' = Flatten(img.array)
    /\ evals' = Append(evals, [p |-> arg, f |-> Flatten(img.array)])
    /\ pc' = "fit"
    /\ UNCHANGED <<arg, etcVars, nbVars, ser, img>>

InitFit ==
    /\ pc = "fit"
    /\ arg = NoValue /\ ret = NoValue
    /\ snr = NoValue /\ calc = NoValue /\ report = NoValue
    /\ mag_range = <<>> /\ computed_snrs = <<>> /\ nexp = NoValue /\ res = NoValue
    /\ NotebookIdle
    /\ FitIdle

NextFit ==
    \/ CurveFitEval
    \/ SersicModSersic
    \/ SersicModShear
    \/ SersicModConvolve
    \/ SersicModDraw
    \/ SersicModReturn

SpecFit == InitFit /\ [][NextFit]_vars

----------------------------------------------------------------------------
(* Properties of compute_mag and _mag2sn_ *)

Returned == pc \in {"mag_done", "mag2sn_done"}

\* C3: compute_mag(filt, nexp, bracket) with integers bracket[0] <= bracket[1]
\* returns the magnitudes bracket[0], bracket[0]+1, ..., bracket[1] and as many
\* S/N values, the i-th being the engine's S/N for a source of the i-th
\* magnitude observed with nexp exposures; the default bracket gives the 13
\* magnitudes 18..30.
ComputeMagTable ==
    Returned =>
        LET b0 == arg.bracket[1]
            b1 == arg.bracket[2]
            mags == ret.mag_range
            snrs == ret.computed_snrs
        IN /\ Len(mags) = b1 - b0 + 1
           /\ \A i \in 1..Len(mags) : mags[i] = b0 + (i - 1)
           /\ mags[Len(mags)] = b1
           /\ Len(snrs) = Len(mags)
           /\ \A i \in 1..Len(snrs) : snrs[i] = snr[<<mags[i], arg.nexp>>]
           /\ (arg.bracket = <<18, 30>> =>
                  /\ Len(mags) = 13
                  /\ mags[1] = 18
                  /\ mags[13] = 30)

\* a call with the default bracket has returned a table with several S/N values
ComputeMagTableWitness ==
    /\ pc = "mag_done"
    /\ arg.bracket = <<DefaultBracketLo, DefaultBracketHi>>
    /\ Len(ret.computed_snrs) = 13
    /\ ret.computed_snrs[1] > ret.computed_snrs[7]
    /\ ret.computed_snrs[7] > ret.computed_snrs[13]

\* the fraction q lies between the integers a and b, in either order
Between(q, a, b) ==
    /\ (IF a < b THEN a ELSE b) * q[2] <= q[1]
    /\ q[1] <= (IF a < b THEN b ELSE a) * q[2]

InTable(t, snrs) == Len(snrs) > 0 /\ SeqMin(snrs) <= t /\ t <= SeqMax(snrs)

\* the result lies between the magnitudes of two neighbouring entries of the
\* lookup table S/N -> magnitude: entries a and b whose S/N values enclose the
\* target with no other S/N value of the table between them
BetweenNeighbours(t, mags, snrs, q) ==
    \E a, b \in 1..Len(snrs) :
        /\ snrs[a] <= t /\ t <= snrs[b]
        /\ \A k \in 1..Len(snrs) : ~(snrs[a] < snrs[k] /\ snrs[k] < snrs[b])
        /\ Between(q, mags[a], mags[b])

\* C4 as stated: for a target between the smallest and the largest computed
\* S/N, _mag2sn_ returns a magnitude between those of two neighbouring table
\* entries, and at a target equal to computed_snrs[i] it returns mag_range[i].
Mag2snInterpolates ==
    (pc = "mag2sn_done" /\ InTable(ret.sntarget, ret.computed_snrs)) =>
        /\ ret.mag # "ValueError"
        /\ BetweenNeighbours(ret.sntarget, ret.mag_range, ret.computed_snrs, ret.mag)
        /\ \A i \in 1..Len(ret.computed_snrs) :
             ret.computed_snrs[i] = ret.sntarget => ret.mag = <<ret.mag_range[i], 1>>

\* the S/N of entry i occurs nowhere else in the table
OccursOnce(snrs, i) == \A k \in 1..Len(snrs) : snrs[k] = snrs[i] => k = i

\* C4 amended: as C4, the exact value at a table entry being promised only
\* where the entry's S/N occurs once in the table.
Mag2snInterpolatesUnique ==
    (pc = "mag2sn_done" /\ InTable(ret.sntarget, ret.computed_snrs)) =>
        /\ ret.mag # "ValueError"
        /\ BetweenNeighbours(ret.sntarget, ret.mag_range, ret.computed_snrs, ret.mag)
        /\ \A i \in 1..Len(ret.computed_snrs) :
             (ret.computed_snrs[i] = ret.sntarget /\ OccursOnce(ret.computed_snrs, i))
                 => ret.mag = <<ret.mag_range[i], 1>>

\* an interpolation strictly between two entries of a table of three
\* different S/N values has been made
Mag2snWitness ==
    /\ pc = "mag2sn_done"
    /\ Len(ret.computed_snrs) = 3
    /\ \A i \in 1..3 : OccursOnce(ret.computed_snrs, i)
    /\ ret.mag # "ValueError"
    /\ ret.mag[2] > 1
    /\ ret.mag[1] % ret.mag[2] # 0

----------------------------------------------------------------------------
(* Properties of compute_nexp *)

\* the required S/N is reached by some number of exposures of the bracket
Reachable ==
    \E n \in arg.bracket[1]..arg.bracket[2] : snr[<<arg.mag, n>>] >= arg.sn

\* C1: whenever the required S/N is reachable within the bracket (the S/N
\* being non-decreasing in the number of exposures), the S/N obtained with
\* the number of exposures compute_nexp returns is at least the required S/N.
NexpReachesSn ==
    (pc = "nexp_done" /\ Reachable) => snr[<<arg.mag, ret.nexp>>] >= arg.sn

\* C2: the report and the exposure time compute_nexp returns are those of the
\* calculation with the returned number of exposures, on every path.
NexpReportIsOptimal ==
    pc = "nexp_done" =>
        /\ ret.report.nexp = ret.nexp
        /\ ret.exptime = perform_calculation([calc EXCEPT !.nexp = ret.nexp]).total_exposure_time

----------------------------------------------------------------------------
(* Properties of make_catalog_gaia and make_catalog_synthetic *)

GaiaCalled == pc # "call" /\ arg.fn = "make_catalog_gaia"
SyntheticCalled == pc # "call" /\ arg.fn = "make_catalog_synthetic"

\* the output names tried that end with '.ecsv'
EcsvNames == {"catalog_gaia.ecsv", ".ecsv"}

Without(s, sub) ==
    IF sub = "" \/ ~Contains(s, sub) THEN s
    ELSE LET i == CHOOSE k \in 1..(Len(s) - Len(sub) + 1) :
                     /\ SubSeq(s, k, k + Len(sub) - 1) = sub
                     /\ \A l \in 1..(k - 1) : SubSeq(s, l, l + Len(sub) - 1) # sub
         IN SubSeq(s, 1, i - 1) \o SubSeq(s, i + Len(sub), Len(s))

\* C9: the query holds the clause 'TOP <row_limit>' exactly when
\* row_limit > -1 ('TOP 0' for 0) and no TOP clause otherwise; apart from the
\* clause it is the query of an unlimited search, with the cone condition on
\* ra, dec and radius.
GaiaTopClause ==
    GaiaCalled =>
        LET clause == "TOP " \o ToString(arg.row_limit)
        IN /\ (arg.row_limit > -1 => Contains(query, "select " \o clause \o " * from"))
           /\ (arg.row_limit <= -1 => ~Contains(query, "TOP"))
           /\ Without(query, IF arg.row_limit > -1 THEN clause ELSE "")
                  = GaiaQuery(-1, arg.ra, arg.dec, arg.radius)
           /\ Contains(query, "where distance(" \o FloatStr(arg.ra) \o ", "
                  \o FloatStr(arg.dec) \o ", ra, dec) < " \o FloatStr(arg.radius))

\* a query for row_limit = 0 has been sent with the clause 'TOP 0'
GaiaTopClauseWitness ==
    /\ GaiaCalled
    /\ arg.row_limit = 0
    /\ Contains(query, "TOP 0 ")

\* C10: the flux column of the catalog make_catalog_synthetic writes is named
\* after its bandpass argument.
SyntheticFluxInBandpass ==
    (SyntheticCalled /\ written = {arg.outfile_name}) =>
        files[arg.outfile_name].names[8] = arg.bandpass

----------------------------------------------------------------------------
(* Properties of the romanisim/romancal notebook run from top to bottom *)

\* the romanisim-make-image command lines run so far
MakeImageCmds == {i \in 1..Len(cmds) : cmds[i][1] = "romanisim-make-image"}

\* the file at path is there and was written by tool in this run
WrittenBy(path, tool) == IsFile(path) /\ files[path].by = tool

\* C5: the catalog passed to romanisim-make-image with --catalog is the file
\* make_catalog_synthetic wrote earlier in the run.
CatalogPassedIsTheOneWritten ==
    \A i \in MakeImageCmds :
        WrittenBy(ArgValue(cmds[i], "--catalog"), "make_catalog_synthetic")

\* C6: the Level 1 and the Level 2 command lines carry the same seed and are
\* the same in every argument but the value of --level and the output file.
SameSeedBothLevels ==
    pc \in {"cell_pipeline", "cell_move", "cell_explore", "explore_cal",
            "explore_catalog", "nb_end"} =>
        /\ Len(cmds) >= 2
        /\ LET c1 == cmds[1]
               c2 == cmds[2]
           IN /\ c1[1] = "romanisim-make-image" /\ c2[1] = "romanisim-make-image"
              /\ ArgValue(c1, "--rng_seed") = ArgValue(c2, "--rng_seed")
              /\ Len(c1) = Len(c2)
              /\ \A i \in 1..Len(c1) :
                   \/ c1[i] = c2[i]
                   \/ i = Len(c1)
                   \/ (i > 1 /\ c1[i - 1] = "--level" /\ c2[i - 1] = "--level")
              /\ ArgValue(c1, "--level") = "1" /\ ArgValue(c2, "--level") = "2"
              /\ c1[Len(c1)] # c2[Len(c2)]

\* both commands have run and both images were written
SameSeedWitness ==
    /\ pc = "cell_pipeline"
    /\ Len(cmds) = 2
    /\ WrittenBy(cmds[1][Len(cmds[1])], "romanisim-make-image")
    /\ WrittenBy(cmds[2][Len(cmds[2])], "romanisim-make-image")
    /\ files[cmds[1][Len(cmds[1])]].rng_seed = "11"

\* C7: every file the exploration cell opens was produced at that path by an
\* earlier cell of the run: the Level 1 image by the first romanisim command
\* (the file also given to the pipeline), the calibrated image by the
\* pipeline in dirname, the source catalog by the pipeline, there or moved
\* there.
ExploredFilesWereProduced ==
    pc \in {"explore_cal", "explore_catalog", "nb_end"} =>
        LET l1 == g.dirname \o g.l1_fname \o "_uncal.asdf"
            l2 == g.dirname \o g.l1_fname \o "_cal.asdf"
            cat == g.dirname \o g.l1_fname \o "_uncal_tweakreg_catalog.asdf"
        IN /\ WrittenBy(l1, "romanisim-make-image")
           /\ l1 = cmds[1][Len(cmds[1])]
           /\ files[l1].level = "1"
           /\ pc = "nb_end" =>
                /\ WrittenBy(l2, "ExposurePipeline") /\ files[l2].input = l1
                /\ WrittenBy(cat, "ExposurePipeline") /\ files[cat].input = l1
                /\ opened = <<l1, l2, cat>>

----------------------------------------------------------------------------
(* Properties of the table make_catalog_synthetic builds *)

\* make_catalog_synthetic has run and written its table
TableWritten ==
    /\ pc = "end" /\ arg.fn = "make_catalog_synthetic"
    /\ written = {arg.outfile_name}

\* the decimal logarithms, times UGrid, of the fluxes in [10^lo, 10^(lo+1))
FluxRange(lo) == (lo * UGrid)..((lo + 1) * UGrid - 1)

\* C11: for all n_psf >= 0 and n_ser >= 0 the catalog has exactly
\* n_psf + n_ser rows in every one of its eight columns; the first n_psf rows
\* have type 'PSF' and the n_ser rows after them type 'SER'; the flux of a
\* 'PSF' row lies in [1e-8, 1e-7) and the flux of a 'SER' row in [1e-7, 1e-6).
SyntheticRowsAligned ==
    TableWritten =>
        LET t == files[arg.outfile_name]
            d == t.d
            n == arg.n_psf + arg.n_ser
        IN /\ Len(t.names) = 8
           /\ DOMAIN d = {t.names[k] : k \in 1..8}
           /\ Cardinality(DOMAIN d) = 8
           /\ \A c \in DOMAIN d : DOMAIN d[c] = 1..n
           /\ \A i \in 1..n :
                /\ d.type[i] = (IF i <= arg.n_psf THEN "PSF" ELSE "SER")
                /\ d.type[i] = "PSF" => d.F158[i] \in FluxRange(-8)
                /\ d.type[i] = "SER" => d.F158[i] \in FluxRange(-7)

\* a table of one star and one galaxy whose fluxes are not the lowest of
\* their ranges, the star's being the larger mantissa
SyntheticRowsWitness ==
    /\ TableWritten
    /\ arg.n_psf = 1 /\ arg.n_ser = 1
    /\ LET d == files[arg.outfile_name].d
       IN /\ d.type = <<"PSF", "SER">>
          /\ d.F158[1] = -8 * UGrid + 7
          /\ d.F158[2] = -7 * UGrid + 2

\* C12: every source of the table has an axis ratio ba in [0.3, 0.7],
\* whatever the uniform draws are.
AxisRatioInRange ==
    TableWritten =>
        LET d == files[arg.outfile_name].d
        IN \A i \in DOMAIN d.ba : 3 * UGrid <= d.ba[i] /\ d.ba[i] <= 7 * UGrid

----------------------------------------------------------------------------
(* Properties of sersic_mod *)

\* the image of the sheared profile for the parameters p
ShearedModel(p) ==
    LET nx == p.cutout.array.shape[1]
        ny == p.cutout.array.shape[2]
        sheared == Shear(Sersic(p.n, p.hlr, p.flux * zp), p.q, p.pa)
    IN Flatten(DrawImage(Convolve(sheared, psf_obj), ImageD(nx, ny),
                         PositionD(p.x0, p.y0)).array)

\* a and b are the same parameters but for the field named
DifferOnlyIn(a, b, field) ==
    /\ a[field] # b[field]
    /\ \A k \in DOMAIN a \ {field} : a[k] = b[k]

\* C13: the profile sersic_mod convolves with the PSF and draws is the
\* sheared one: the returned image is that of the Sersic profile with axis
\* ratio q and position angle pa, so two evaluations that differ only in q,
\* or only in pa (not by a half turn) with q # 1, return different images.
SersicModelIsSheared ==
    /\ \A k \in 1..Len(evals) : evals[k].f = ShearedModel(evals[k].p)
    /\ \A j, k \in 1..Len(evals) :
         /\ DifferOnlyIn(evals[j].p, evals[k].p, "q") => evals[j].f # evals[k].f
         /\ ( /\ DifferOnlyIn(evals[j].p, evals[k].p, "pa")
              /\ evals[j].p.q # 10
              /\ evals[j].p.pa % 180 # evals[k].p.pa % 180 )
            => evals[j].f # evals[k].f

====
